---- MODULE Spec2Model ----
(***************************************************************************)
(* Latency acquisition and topology synthesis of the latency visualizer:   *)
(* the remote latency client, the region metadata resolver, the topology   *)
(* synthesizer and the useLatencyData controller (src/hooks/               *)
(* useLatencyData.ts, last revision) together with the fetchRegions effect *)
(* of useExchangeData.                                                     *)
(*                                                                         *)
(* Two specifications share the module.  SpecPipeline applies the pure     *)
(* functions of the client, resolver and synthesizer to inputs drawn in    *)
(* its initial states.  Spec is the controller: overlapping refresh cycles *)
(* started by mount, timer and manual refresh, each suspended at its three *)
(* awaits, committing into the hook's state.                               *)
(***************************************************************************)
EXTENDS Integers, Sequences, FiniteSets, TLC

----------------------------------------------------------------------------
(* Bounds of the model *)

\* refresh cycles started in one behaviour of the controller
MaxCycles == 2

\* largest value Date.now() reaches
MaxClock == 1

\* longest timestamps or p50 array of a parallel-array series
MaxSerie == 2

\* longest sample list handed to the synthesizer on its own
MaxSamples == 3

\* most calls of fetchRegions one component makes
MaxEffects == 2

----------------------------------------------------------------------------
(* JavaScript numbers.  A number is a reduced fraction; NaN is the fraction *)
(* with denominator 0.                                                     *)

RECURSIVE GCD(_, _)
GCD(a, b) == IF b = 0 THEN a ELSE GCD(b, a % b)

Abs(x) == IF x < 0 THEN -x ELSE x

NaN == [n |-> 0, d |-> 0]

Num(k) == [n |-> k, d |-> 1]

IsNaN(x) == x.d = 0

\* n/d in lowest terms, d > 0
Frac(n, d) ==
  IF d = 0 THEN NaN
  ELSE LET g == GCD(Abs(n), Abs(d))
           s == IF d < 0 THEN -1 ELSE 1
       IN [n |-> s * (n \div g), d |-> s * (d \div g)]

NumAdd(x, y) ==
  IF IsNaN(x) \/ IsNaN(y) THEN NaN
  ELSE Frac(x.n * y.d + y.n * x.d, x.d * y.d)

NumDiv(x, k) == IF IsNaN(x) THEN NaN ELSE Frac(x.n, x.d * k)

NumMul(x, k) == IF IsNaN(x) THEN NaN ELSE Frac(x.n * k, x.d)

\* x < y of JavaScript: false as soon as one side is NaN
NumLt(x, y) == ~IsNaN(x) /\ ~IsNaN(y) /\ x.n * y.d < y.n * x.d

NumLe(x, y) == ~IsNaN(x) /\ ~IsNaN(y) /\ x.n * y.d <= y.n * x.d

\* x || 0 on a number: NaN and 0 are falsy
OrZero(x) == IF IsNaN(x) \/ x.n = 0 THEN Num(0) ELSE x

----------------------------------------------------------------------------
(* parseFloat.  A JSON string is a sequence of characters; a field that is  *)
(* absent reads as undefined, which parseFloat converts to the string      *)
(* "undefined".                                                            *)

Digits == {"0", "1", "2", "3", "4", "5", "6", "7", "8", "9"}

DigitVal(c) ==
  CASE c = "0" -> 0 [] c = "1" -> 1 [] c = "2" -> 2 [] c = "3" -> 3
    [] c = "4" -> 4 [] c = "5" -> 5 [] c = "6" -> 6 [] c = "7" -> 7
    [] c = "8" -> 8 [] c = "9" -> 9

Missing == <<"u", "n", "d", "e", "f", "i", "n", "e", "d">>

\* length of the longest prefix of s made of digits
RECURSIVE DigitPrefix(_)
DigitPrefix(s) ==
  IF s = <<>> \/ Head(s) \notin Digits THEN 0 ELSE 1 + DigitPrefix(Tail(s))

RECURSIVE DigitsValue(_, _)
DigitsValue(s, acc) ==
  IF s = <<>> THEN acc ELSE DigitsValue(Tail(s), 10 * acc + DigitVal(Head(s)))

\* parseFloat on an unsigned integer literal followed by anything
parseFloat(s) ==
  LET k == DigitPrefix(s)
  IN IF k = 0 THEN NaN ELSE Num(DigitsValue(SubSeq(s, 1, k), 0))

----------------------------------------------------------------------------
(* Sequence helpers of the JavaScript array API *)

Range(s) == {s[i] : i \in 1..Len(s)}

\* the elements of s not in seen, each once, in the order of s
RECURSIVE DedupFrom(_, _)
DedupFrom(s, seen) ==
  IF s = << >> THEN << >>
  ELSE IF Head(s) \in seen THEN DedupFrom(Tail(s), seen)
  ELSE <<Head(s)>> \o DedupFrom(Tail(s), seen \cup {Head(s)})

\* Array.from(new Set(s)): first occurrences, in order
Dedup(s) == DedupFrom(s, {})

\* latencyData.find((d) => d.source === code): <<first match>>, or <<>>
\* when there is none
FindBySource(latencyList, code) ==
  LET m == SelectSeq(latencyList, LAMBDA d : d.source = code)
  IN IF m = << >> THEN << >> ELSE <<Head(m)>>

RECURSIVE Flat(_)
Flat(ss) == IF ss = <<>> THEN <<>> ELSE Head(ss) \o Flat(Tail(ss))

----------------------------------------------------------------------------
(* Results of a call that may throw *)

Return(v) == [ok |-> TRUE, val |-> v]

Throw(e) == [ok |-> FALSE, err |-> e]

----------------------------------------------------------------------------
(* Remote latency client *)

LOCATIONS ==
  << [code |-> "US", name |-> "United States"],
     [code |-> "GB", name |-> "United Kingdom"],
     [code |-> "DE", name |-> "Germany"],
     [code |-> "SG", name |-> "Singapore"],
     [code |-> "JP", name |-> "Japan"],
     [code |-> "IN", name |-> "India"] >>

LocationCodes == {LOCATIONS[i].code : i \in 1..Len(LOCATIONS)}

Hub == "Cloudflare"

(* What fetch() and res.json() deliver for one request.  kind is "network" *)
(* when fetch rejects, "http" when res.ok is false, "badjson" when         *)
(* res.json() rejects and "json" when a body was parsed.  An optional      *)
(* member of the body is <<>> when absent and <<v>> when present.          *)
NoBody == [success |-> FALSE, data |-> <<>>]

NetworkError == [kind |-> "network", body |-> NoBody]

HttpError == [kind |-> "http", body |-> NoBody]

BadJson == [kind |-> "badjson", body |-> NoBody]

Json(b) == [kind |-> "json", body |-> b]

\* { success, data: { result: r } }
Envelope(r) == [success |-> TRUE, data |-> << [result |-> <<r>>] >>]

SummaryBody(sm) == Envelope([summary_0 |-> <<sm>>])

\* bodies that fail the defensive checks of fetchRadarQualityForLocation
MalformedSummaryBodies ==
  { [success |-> FALSE, data |-> << [result |-> << [summary_0 |-> << >>] >>] >>],
    [success |-> TRUE, data |-> << >>],
    [success |-> TRUE, data |-> << [result |-> << >>] >>],
    Envelope([summary_0 |-> << >>]) }

Summary(idle, loss, jit) ==
  [latencyIdle |-> idle, packetLoss |-> loss, jitterIdle |-> jit]

TypeErrorFailedToFetch == <<"TypeError: Failed to fetch">>

SyntaxErrorJson == <<"SyntaxError: Unexpected token in JSON">>

fetchRadarQualityForLocation(locationCode, res) ==
  IF res.kind = "network" THEN Throw(TypeErrorFailedToFetch)
  ELSE IF res.kind = "http" THEN Throw(<<"Radar API error for", locationCode>>)
  ELSE IF res.kind = "badjson" THEN Throw(SyntaxErrorJson)
  ELSE LET json == res.body IN
    IF \/ ~json.success
       \/ json.data = << >>
       \/ json.data[1].result = << >>
       \/ json.data[1].result[1].summary_0 = << >>
    THEN Throw(<<"Malformed Radar API response">>)
    ELSE Return(json.data[1].result[1].summary_0[1])

\* QualityOfIdle with the thresholds of the legend, 20, 50 and 100
QualityOfIdle_Legend(latencyIdle) ==
  IF NumLe(parseFloat(latencyIdle), Num(20)) THEN "excellent"
  ELSE IF NumLe(parseFloat(latencyIdle), Num(50)) THEN "good"
  ELSE IF NumLe(parseFloat(latencyIdle), Num(100)) THEN "fair"
  ELSE "poor"

\* the quality of a sample, from the raw latencyIdle
QualityOfIdle(latencyIdle) ==
  IF NumLt(parseFloat(latencyIdle), Num(50)) THEN "excellent"
  ELSE IF NumLt(parseFloat(latencyIdle), Num(100)) THEN "good"
  ELSE IF NumLt(parseFloat(latencyIdle), Num(200)) THEN "fair"
  ELSE "poor"

\* the callback of LOCATIONS.map: <<sample>>, or <<>> for null
RadarSampleFor(loc, res, t) ==
  IF loc.code = Hub THEN << >>
  ELSE LET r == fetchRadarQualityForLocation(loc.code, res) IN
    IF ~r.ok THEN << >>
    ELSE LET data == r.val IN
      << [ id |-> <<"cf-latency", loc.code>>,
           source |-> loc.code,
           target |-> Hub,
           latency |-> OrZero(parseFloat(data.latencyIdle)),
           timestamp |-> t,
           quality |-> QualityOfIdle(data.latencyIdle),
           packetLoss |-> OrZero(parseFloat(data.packetLoss)),
           jitter |-> OrZero(parseFloat(data.jitterIdle)) ] >>

\* fetchAllRadarLatencyData without the try of its callback: one failed
\* location rejects Promise.all and no sample is returned
fetchAllRadarLatencyData_NoCatch(resp, t) ==
  IF \E i \in 1..Len(LOCATIONS) :
       ~fetchRadarQualityForLocation(LOCATIONS[i].code,
                                     resp[LOCATIONS[i].code]).ok
  THEN << >>
  ELSE Flat([i \in 1..Len(LOCATIONS) |->
               RadarSampleFor(LOCATIONS[i], resp[LOCATIONS[i].code], t)])

\* resp maps each location code to what its request delivers; t is Date.now()
fetchAllRadarLatencyData(resp, t) ==
  LET results == [i \in 1..Len(LOCATIONS) |->
                    RadarSampleFor(LOCATIONS[i], resp[LOCATIONS[i].code], t)]
  IN Flat(results)

----------------------------------------------------------------------------
(* Remote latency client: historical series *)

\* an ISO date string of the first ten seconds of the epoch
IsoSecond(k) ==
  <<"1", "9", "7", "0", "-", "0", "1", "-", "0", "1", "T",
    "0", "0", ":", "0", "0", ":", "0", k, "Z">>

\* new Date(str).getTime(): milliseconds, NaN for a string that is no date
DateGetTime(str) ==
  IF /\ Len(str) = 20
     /\ str[19] \in Digits
     /\ str = IsoSecond(str[19])
  THEN Num(1000 * DigitVal(str[19]))
  ELSE NaN

\* { success, data: { result: { serie_0: serie } } }
SerieBody(serie) == Envelope([serie_0 |-> <<serie>>])

\* the legacy shape: an array of { timestamp, median }, median optional
LegacySerie(items) == [shape |-> "array", items |-> items,
                       timestamps |-> << >>, p50 |-> << >>]

\* the parallel-array shape; an entry of either array is <<>> when it is
\* null or undefined and <<string>> otherwise.  hasArrays is false when
\* timestamps or p50 is no array.
ParallelSerie(ts, p50, hasArrays) ==
  [shape |-> IF hasArrays THEN "object" ELSE "other", items |-> << >>,
   timestamps |-> ts, p50 |-> p50]

\* ParallelPoints with the loop left at the first index it skips
RECURSIVE ParallelPoints_StopAtGap(_, _, _, _)
ParallelPoints_StopAtGap(locationCode, timestamps, p50, i) ==
  IF i > Len(timestamps) THEN << >>
  ELSE
    LET ts == timestamps[i]
        median == IF i <= Len(p50) THEN p50[i] ELSE << >>
    IN IF ts # << >> /\ ts[1] # << >> /\ median # << >>
       THEN << [ timestamp |-> DateGetTime(ts[1]),
                 latency |-> parseFloat(median[1]),
                 source |-> locationCode,
                 target |-> Hub ] >>
            \o ParallelPoints_StopAtGap(locationCode, timestamps, p50, i + 1)
       ELSE << >>

\* the new-format loop from index i on
RECURSIVE ParallelPoints(_, _, _, _)
ParallelPoints(locationCode, timestamps, p50, i) ==
  IF i > Len(timestamps) THEN << >>
  ELSE
    LET ts == timestamps[i]
        median == IF i <= Len(p50) THEN p50[i] ELSE << >>
        pushed ==
          IF ts # << >> /\ ts[1] # << >> /\ median # << >>
          THEN << [ timestamp |-> DateGetTime(ts[1]),
                    latency |-> parseFloat(median[1]),
                    source |-> locationCode,
                    target |-> Hub ] >>
          ELSE << >>
    IN pushed \o ParallelPoints(locationCode, timestamps, p50, i + 1)

\* LegacyPoints with the elements that carry no median left out
LegacyPoints_SkipNoMedian(locationCode, items) ==
  LET kept == SelectSeq(items, LAMBDA item : item.median # << >>)
  IN [k \in 1..Len(kept) |->
        [ timestamp |-> DateGetTime(kept[k].timestamp),
          latency |-> OrZero(kept[k].median[1]),
          source |-> locationCode,
          target |-> Hub ]]

\* the old-format map: one point per element, median || 0
LegacyPoints(locationCode, items) ==
  [k \in 1..Len(items) |->
     [ timestamp |-> DateGetTime(items[k].timestamp),
       latency |-> IF items[k].median = << >>
                   THEN Num(0)
                   ELSE OrZero(items[k].median[1]),
       source |-> locationCode,
       target |-> Hub ]]

fetchRadarHistoricalForLocation(locationCode, res) ==
  IF res.kind = "network" THEN Throw(TypeErrorFailedToFetch)
  ELSE IF res.kind = "http"
    THEN Throw(<<"Radar historical API error for", locationCode>>)
  ELSE IF res.kind = "badjson" THEN Throw(SyntaxErrorJson)
  ELSE LET json == res.body IN
    IF \/ ~json.success
       \/ json.data = << >>
       \/ json.data[1].result = << >>
       \/ json.data[1].result[1].serie_0 = << >>
    THEN Throw(<<"Malformed Radar historical API response">>)
    ELSE LET serie == json.data[1].result[1].serie_0[1] IN
      IF serie.shape = "array"
      THEN Return(LegacyPoints(locationCode, serie.items))
      ELSE IF serie.shape = "object"
      THEN Return(ParallelPoints(locationCode, serie.timestamps, serie.p50, 1))
      ELSE Throw(<<"Malformed Radar historical API response: unexpected format">>)

\* the callback of LOCATIONS.map: the points, or [] when the fetch throws
HistoricalPointsFor(loc, res) ==
  LET r == fetchRadarHistoricalForLocation(loc.code, res)
  IN IF r.ok THEN r.val ELSE << >>

fetchRadarHistoricalData(resp) ==
  Flat([i \in 1..Len(LOCATIONS) |->
          HistoricalPointsFor(LOCATIONS[i], resp[LOCATIONS[i].code])])

----------------------------------------------------------------------------
(* Topology synthesizer: region-to-region edges *)

\* MathMax that returns its first argument
MathMax_First(x, y) == x

\* Math.max of two timestamps
MathMax(x, y) == IF x > y THEN x ELSE y

\* the edges pushed for a fixed i, with j from lo to n
RECURSIVE PairsFrom(_, _, _, _)
PairsFrom(latencyList, regionNodes, i, j) ==
  IF j > Len(regionNodes) THEN << >>
  ELSE
    LET latencyA == FindBySource(latencyList, regionNodes[i])
        latencyB == FindBySource(latencyList, regionNodes[j])
        pushed ==
          IF latencyA # << >> /\ latencyB # << >>
          THEN << [ id |-> <<"cf-latency", regionNodes[i], regionNodes[j]>>,
                    source |-> regionNodes[i],
                    target |-> regionNodes[j],
                    latency |-> NumDiv(NumAdd(latencyA[1].latency,
                                              latencyB[1].latency), 2),
                    timestamp |-> MathMax(latencyA[1].timestamp,
                                          latencyB[1].timestamp),
                    quality |-> latencyA[1].quality,
                    packetLoss |-> NumDiv(NumAdd(OrZero(latencyA[1].packetLoss),
                                                 OrZero(latencyB[1].packetLoss)), 2),
                    jitter |-> NumDiv(NumAdd(OrZero(latencyA[1].jitter),
                                             OrZero(latencyB[1].jitter)), 2) ] >>
          ELSE << >>
    IN pushed \o PairsFrom(latencyList, regionNodes, i, j + 1)

\* InnerStart with the inner loop running over every index
InnerStart_FromFirst(i) == 1

\* first value of the inner loop variable
InnerStart(i) == i + 1

\* RegionPairs with the edges of a later i pushed ahead of those of i
RECURSIVE RegionPairs_Reversed(_, _, _)
RegionPairs_Reversed(latencyList, regionNodes, i) ==
  IF i > Len(regionNodes) THEN << >>
  ELSE RegionPairs_Reversed(latencyList, regionNodes, i + 1)
         \o PairsFrom(latencyList, regionNodes, i, InnerStart(i))

RECURSIVE RegionPairs(_, _, _)
RegionPairs(latencyList, regionNodes, i) ==
  IF i > Len(regionNodes) THEN << >>
  ELSE PairsFrom(latencyList, regionNodes, i, InnerStart(i))
         \o RegionPairs(latencyList, regionNodes, i + 1)

synthesizeRegionConnections(latencyList) ==
  LET regionNodes == Dedup([k \in 1..Len(latencyList) |-> latencyList[k].source])
  IN latencyList \o RegionPairs(latencyList, regionNodes, 1)

----------------------------------------------------------------------------
(* Region metadata resolver.  Coordinates are in 1/10000 of a degree.       *)

\* { success, data: { result: { location: loc } } }
LocationBody(loc) == Envelope([location |-> <<loc>>])

\* bodies that fail the defensive checks of fetchRegionMetadata
MalformedLocationBodies ==
  { [success |-> FALSE, data |-> << [result |-> << [location |-> << >>] >>] >>],
    [success |-> TRUE, data |-> << >>],
    [success |-> TRUE, data |-> << [result |-> << >>] >>],
    Envelope([location |-> << >>]) }

HubMetadata ==
  [code |-> "Cloudflare", name |-> "Cloudflare",
   latitude |-> 377749, longitude |-> -1224194]

fallbackCoords ==
  "US" :> [latitude |-> 398283, longitude |-> -985795, name |-> "United States"]
  @@ "DE" :> [latitude |-> 511657, longitude |-> 104515, name |-> "Germany"]
  @@ "GB" :> [latitude |-> 553781, longitude |-> -34360, name |-> "United Kingdom"]
  @@ "SG" :> [latitude |-> 13521, longitude |-> 1038198, name |-> "Singapore"]
  @@ "JP" :> [latitude |-> 362048, longitude |-> 1382529, name |-> "Japan"]
  @@ "IN" :> [latitude |-> 205937, longitude |-> 789629, name |-> "India"]

\* the requests a resolution sends: the hub shortcut returns before fetch
FetchesOf(regionCode) == IF regionCode = Hub THEN 0 ELSE 1

\* RemoteMetadata without the hub shortcut
RemoteMetadata_NoHubBranch(regionCode, res) ==
  IF res.kind = "network" THEN Throw(TypeErrorFailedToFetch)
  ELSE IF res.kind = "http"
    THEN Throw(<<"Failed to fetch region metadata for", regionCode>>)
  ELSE IF res.kind = "badjson" THEN Throw(SyntaxErrorJson)
  ELSE LET json == res.body IN
    IF \/ ~json.success
       \/ json.data = << >>
       \/ json.data[1].result = << >>
       \/ json.data[1].result[1].location = << >>
    THEN Throw(<<"Malformed location API response">>)
    ELSE LET loc == json.data[1].result[1].location[1] IN
      Return([code |-> loc.code, name |-> loc.name,
              latitude |-> loc.latitude, longitude |-> loc.longitude])

\* the body of the try block: the hub shortcut, else the remote call
RemoteMetadata(regionCode, res) ==
  IF regionCode = Hub THEN Return(HubMetadata)
  ELSE IF res.kind = "network" THEN Throw(TypeErrorFailedToFetch)
  ELSE IF res.kind = "http"
    THEN Throw(<<"Failed to fetch region metadata for", regionCode>>)
  ELSE IF res.kind = "badjson" THEN Throw(SyntaxErrorJson)
  ELSE LET json == res.body IN
    IF \/ ~json.success
       \/ json.data = << >>
       \/ json.data[1].result = << >>
       \/ json.data[1].result[1].location = << >>
    THEN Throw(<<"Malformed location API response">>)
    ELSE LET loc == json.data[1].result[1].location[1] IN
      Return([code |-> loc.code, name |-> loc.name,
              latitude |-> loc.latitude, longitude |-> loc.longitude])

\* FallbackMetadata without the static table
FallbackMetadata_NoTable(regionCode, e) == Throw(e)

\* the catch block: the static table, else the caught error again
FallbackMetadata(regionCode, e) ==
  IF regionCode \in DOMAIN fallbackCoords
  THEN Return([code |-> regionCode,
               name |-> fallbackCoords[regionCode].name,
               latitude |-> fallbackCoords[regionCode].latitude,
               longitude |-> fallbackCoords[regionCode].longitude])
  ELSE Throw(e)

fetchRegionMetadata(regionCode, res) ==
  LET attempt == RemoteMetadata(regionCode, res)
  IN IF attempt.ok THEN attempt ELSE FallbackMetadata(regionCode, attempt.err)

----------------------------------------------------------------------------
(* Topology synthesizer: nodes *)

REGION_PROVIDER_MAP ==
  "US" :> "AWS" @@ "DE" :> "GCP" @@ "GB" :> "Azure"
  @@ "SG" :> "AWS" @@ "JP" :> "GCP" @@ "IN" :> "Azure"

\* REGION_PROVIDER_MAP[code]; a missing key reads as undefined
ProviderOf(code) ==
  IF code \in DOMAIN REGION_PROVIDER_MAP THEN REGION_PROVIDER_MAP[code]
  ELSE "undefined"

\* the static exchange list of src/constants/exchangeLocations
EXCHANGE_LOCATIONS ==
  << [id |-> "binance-us-east", name |-> "Binance",
       cloudProvider |-> "AWS", status |-> "online"],
     [id |-> "okx-europe", name |-> "OKX",
       cloudProvider |-> "GCP", status |-> "online"],
     [id |-> "bybit-us", name |-> "Bybit",
       cloudProvider |-> "Azure", status |-> "maintenance"] >>

ExchangeIds == {EXCHANGE_LOCATIONS[i].id : i \in 1..Len(EXCHANGE_LOCATIONS)}

\* one turn of the for loop: <<node>>, or <<>> when the code is skipped
RegionExchangeFor(code, res) ==
  IF code \in ExchangeIds THEN << >>
  ELSE LET meta == fetchRegionMetadata(code, res) IN
    IF ~meta.ok THEN << >>
    ELSE << [ id |-> code,
              name |-> code,
              displayName |-> <<"Region: ", meta.val.name>>,
              coordinates |-> [latitude |-> meta.val.latitude,
                               longitude |-> meta.val.longitude,
                               altitude |-> 0],
              cloudProvider |-> ProviderOf(code),
              provider |-> ProviderOf(code),
              region |-> meta.val.name,
              regionCode |-> code,
              serverCount |-> 1,
              status |-> "online" ] >>

\* synthesizeRegionExchanges without the try of its loop body: one code
\* that does not resolve rejects the call and no node is returned
synthesizeRegionExchanges_NoCatch(latencyList, metaResp) ==
  LET regionCodes ==
        Dedup(Flat([k \in 1..Len(latencyList) |->
                      <<latencyList[k].source, latencyList[k].target>>]))
  IN IF \E k \in 1..Len(regionCodes) :
          /\ regionCodes[k] \notin ExchangeIds
          /\ ~fetchRegionMetadata(regionCodes[k], metaResp[regionCodes[k]]).ok
     THEN << >>
     ELSE Flat([k \in 1..Len(regionCodes) |->
                  RegionExchangeFor(regionCodes[k], metaResp[regionCodes[k]])])

\* metaResp maps each region code to what its metadata request delivers
synthesizeRegionExchanges(latencyList, metaResp) ==
  LET regionCodes ==
        Dedup(Flat([k \in 1..Len(latencyList) |->
                      <<latencyList[k].source, latencyList[k].target>>]))
  IN Flat([k \in 1..Len(regionCodes) |->
             RegionExchangeFor(regionCodes[k], metaResp[regionCodes[k]])])

----------------------------------------------------------------------------
(* Rendering layer: the band the map computes for a connection *)

\* the thresholds of src/constants/exchangeLocations
LATENCY_THRESHOLDS == [excellent |-> 20, good |-> 50, fair |-> 100]

getLatencyQuality(latency) ==
  IF NumLe(latency, Num(LATENCY_THRESHOLDS.excellent)) THEN "excellent"
  ELSE IF NumLe(latency, Num(LATENCY_THRESHOLDS.good)) THEN "good"
  ELSE IF NumLe(latency, Num(LATENCY_THRESHOLDS.fair)) THEN "fair"
  ELSE "poor"

----------------------------------------------------------------------------
(* Connections and filters of lib/exchangeData *)

\* exchanges.find((e) => e.id === id): <<first match>>, or <<>>
FindById(exchanges, id) ==
  LET m == SelectSeq(exchanges, LAMBDA e : e.id = id)
  IN IF m = << >> THEN << >> ELSE <<Head(m)>>

\* one turn of the map: <<connection>>, or <<>> for undefined.  isActive and
\* animationProgress are drawn from Math.random() and left out.
ConnectionOf(exchanges, data) ==
  LET source == FindById(exchanges, data.source)
      target == FindById(exchanges, data.target)
  IN IF source = << >> \/ target = << >> THEN << >>
     ELSE << [ id |-> data.id,
               source |-> source[1],
               target |-> target[1],
               latency |-> data.latency,
               quality |-> data.quality ] >>

createLatencyConnections(exchanges, latencyList) ==
  Flat([k \in 1..Len(latencyList) |-> ConnectionOf(exchanges, latencyList[k])])

filterExchangesByProvider(exchanges, providers) ==
  IF Len(providers) = 0 THEN exchanges
  ELSE SelectSeq(exchanges, LAMBDA e : e.cloudProvider \in Range(providers))

filterExchangesByName(exchanges, names) ==
  IF Len(names) = 0 THEN exchanges
  ELSE SelectSeq(exchanges, LAMBDA e : e.name \in Range(names))

\* !(latency < min || latency > max)
InLatencyRange(latency, range) ==
  ~(NumLt(latency, Num(range.min)) \/ NumLt(Num(range.max), latency))

----------------------------------------------------------------------------
(* Controller: the computation between the last await and the commits *)

ZeroMetrics ==
  [totalExchanges |-> 0, activeConnections |-> 0, averageLatency |-> Num(0),
   uptime |-> Num(0), lastUpdated |-> 0]

RECURSIVE SumLatency(_)
SumLatency(data) ==
  IF data = << >> THEN Num(0)
  ELSE NumAdd(Head(data).latency, SumLatency(Tail(data)))

\* percent of the exchanges whose status is online
UptimeOf(allExchanges) ==
  LET onlineCount ==
        Len(SelectSeq(allExchanges, LAMBDA e : e.status = "online"))
  IN IF Len(allExchanges) > 0
     THEN NumMul(Frac(onlineCount, Len(allExchanges)), 100)
     ELSE Num(0)

\* AverageLatencyOf without the division by the number of samples
AverageLatencyOf_Sum(data) == SumLatency(data)

AverageLatencyOf(data) ==
  IF Len(data) # 0 THEN NumDiv(SumLatency(data), Len(data)) ELSE Num(0)

\* the metrics object of the success path; t is Date.now()
MetricsOf(synthesizedLatencyData, regionExchanges, t) ==
  LET allExchanges ==
        [k \in 1..Len(EXCHANGE_LOCATIONS) |->
           [id |-> EXCHANGE_LOCATIONS[k].id,
            status |-> EXCHANGE_LOCATIONS[k].status]]
        \o [k \in 1..Len(regionExchanges) |->
              [id |-> regionExchanges[k].id,
               status |-> regionExchanges[k].status]]
  IN [totalExchanges |-> Len(synthesizedLatencyData),
      activeConnections |-> Len(synthesizedLatencyData),
      averageLatency |-> AverageLatencyOf(synthesizedLatencyData),
      uptime |-> UptimeOf(allExchanges),
      lastUpdated |-> t]

\* the derived-state bundle a cycle writes when it succeeds
SuccessBundle(latency, historical, metaResp, t) ==
  LET synthesizedLatencyData == synthesizeRegionConnections(latency)
      regionExchanges ==
        synthesizeRegionExchanges(synthesizedLatencyData, metaResp)
  IN [latencyData |-> synthesizedLatencyData,
      historicalData |-> historical,
      metrics |-> MetricsOf(synthesizedLatencyData, regionExchanges, t)]

\* the derived-state bundle the catch block writes
FailureBundle ==
  [latencyData |-> << >>, historicalData |-> << >>, metrics |-> ZeroMetrics]

\* err instanceof Error ? err.message : "Failed to fetch data"
ErrorMessageOf(err) ==
  IF err.isError THEN err.message ELSE "Failed to fetch data"

----------------------------------------------------------------------------
(* State *)

VARIABLES
  \* client pipeline: the responses of one batch and what is made of them
  responses, batch, connections, cstage,
  \* resolver: one query (code and response), its result, and how many
  \* requests the resolution sent
  metaQuery, metaResult, rstage, metaFetches,
  \* synthesizer: a sample list, the metadata answers, and the edges and
  \* nodes made of them
  synthInput, synthMeta, synthEdges, synthNodes, sstage,
  \* one call of a fan-out function: which function, each location's request,
  \* what it delivered, what its callback returned, the joined result, and
  \* how many requests each location was sent by each function
  jkind, requests, delivered, attempts, joined, jstage, sent,
  \* controller: the view, the hook's parameter, ref and state cells
  view, refreshInterval, intervalRef,
  latencyData, historicalData, metrics, isLoading, error, lastUpdated,
  \* controller: the refresh cycles, how many were started, the cycle that
  \* settled last with the bundle it wrote, and the cycle each part of the
  \* exposed bundle was written by
  cycles, started, settled, origin,
  \* the page and useExchangeData: the page's lifecycle, the sample list each
  \* of the two components gets from its own useLatencyData, the calls of
  \* fetchRegions each has made, its regionExchanges cell, and the filters
  screen, seenSamples, effectRuns, regionExchangesOf, filters,
  \* the value Date.now() returned last
  now

clientVars == <<responses, batch, connections, cstage>>

resolverVars == <<metaQuery, metaResult, rstage, metaFetches>>

synthVars == <<synthInput, synthMeta, synthEdges, synthNodes, sstage>>

joinVars == <<jkind, requests, delivered, attempts, joined, jstage, sent>>

hookVars == <<latencyData, historicalData, metrics, isLoading, error, lastUpdated>>

ctlVars == <<view, refreshInterval, intervalRef, hookVars,
             cycles, started, settled, origin>>

viewVars == <<screen, seenSamples, effectRuns, regionExchangesOf, filters>>

vars == <<clientVars, resolverVars, synthVars, joinVars, ctlVars, viewVars,
          now>>

----------------------------------------------------------------------------
(* Inputs *)

\* raw latencyIdle values: absent, "", "0", "30", "50", "80", "100", "150",
\* "200", "250" and "80ms"
RawIdle ==
  { Missing, << >>, <<"0">>, <<"3", "0">>, <<"5", "0">>, <<"8", "0">>,
    <<"1", "0", "0">>, <<"1", "5", "0">>, <<"2", "0", "0">>,
    <<"2", "5", "0">>, <<"8", "0", "m", "s">> }

Summaries ==
  {Summary(idle, Missing, Missing) : idle \in RawIdle}
  \cup {Summary(<<"3", "0">>, <<"1">>, <<"2">>),
        Summary(<<"8", "0">>, <<"0">>, <<"4">>)}

\* everything one real-time request may deliver
RadarOutcomes ==
  {NetworkError, HttpError, BadJson}
  \cup {Json(b) : b \in MalformedSummaryBodies}
  \cup {Json(SummaryBody(sm)) : sm \in Summaries}

\* the locations whose request draws from all of RadarOutcomes
Probed == {"US", "GB", "DE"}

\* what the request of a location outside Probed delivers
CoarseOutcomes ==
  {HttpError, Json(SummaryBody(Summary(<<"1", "2", "0">>, Missing, Missing)))}

ClientResponses ==
  {p @@ q : p \in [Probed -> RadarOutcomes],
            q \in [LocationCodes \ Probed -> CoarseOutcomes]}

\* a batch in which the locations of DOMAIN idle answer and the others fail
Answering(idle) ==
  [c \in LocationCodes |->
     IF c \in DOMAIN idle
     THEN Json(SummaryBody(Summary(idle[c], Missing, Missing)))
     ELSE HttpError]

\* the real-time batches the controller's cycles draw from
CtlRadarResponses ==
  { Answering(<< >>),
    Answering("US" :> <<"3", "0">> @@ "GB" :> <<"8", "0">>) }

\* the historical batches the controller's cycles draw from
CtlHistResponses ==
  { [c \in LocationCodes |-> HttpError],
    [c \in LocationCodes |->
       IF c = "US"
       THEN Json(SerieBody(LegacySerie(
              << [timestamp |-> IsoSecond("1"), median |-> <<Num(30)>>] >>)))
       ELSE HttpError] }

RemoteLocation(code) ==
  [code |-> code, name |-> code, latitude |-> 10000, longitude |-> 20000]

\* the metadata answers the controller's cycles draw from
CtlMetaResponses ==
  { [c \in LocationCodes \cup {Hub} |-> NetworkError],
    [c \in LocationCodes \cup {Hub} |-> Json(LocationBody(RemoteLocation(c)))] }

\* what a try block may be left with
ThrownValues ==
  { [isError |-> TRUE, message |-> "Maximum call stack size exceeded"],
    [isError |-> FALSE, message |-> ""] }

\* codes a metadata query is made for, and what the request may deliver
QueryCodes == LocationCodes \cup {Hub, "FR", "BR", "binance-us-east"}

LocationOutcomes ==
  {NetworkError, HttpError, BadJson}
  \cup {Json(b) : b \in MalformedLocationBodies}
  \cup {Json(LocationBody(RemoteLocation(c))) : c \in {"US", "FR"}}

RefreshIntervals == {-1, 0, 10000}

\* a region-to-hub sample as the synthesizer may be handed one.  An absent
\* packetLoss or jitter is NaN here: undefined and NaN are both falsy.
HubSample(src, latency, t, quality, loss, jit) ==
  [ id |-> <<"cf-latency", src>>, source |-> src, target |-> Hub,
    latency |-> latency, timestamp |-> t, quality |-> quality,
    packetLoss |-> loss, jitter |-> jit ]

\* sources of such samples: two locations, a code outside every table, and
\* the id of a known exchange
SynthSources == {"US", "GB", "FR", "binance-us-east"}

HubSamples ==
  {HubSample(src, Num(30), 1, "excellent", NaN, NaN) : src \in SynthSources}
  \cup {HubSample(src, Num(80), 2, "good", Num(1), Num(2)) : src \in SynthSources}

\* the metadata answers of a synthesis on its own: the remote call for US
\* and for FR fails or succeeds, that for GB fails
SynthMetaResponses ==
  { [c \in SynthSources \cup {Hub} |->
       IF c = "US" THEN us
       ELSE IF c = "FR" THEN fr
       ELSE IF c = "GB" THEN HttpError
       ELSE IF c = Hub THEN NetworkError
       ELSE Json(LocationBody(RemoteLocation(c)))] :
    us \in {NetworkError, Json(LocationBody(RemoteLocation("US")))},
    fr \in {NetworkError, Json(LocationBody(RemoteLocation("FR")))} }

\* the sequences over S of length at most n
SeqsUpTo(S, n) == UNION {[1..k -> S] : k \in 0..n}

\* an entry of timestamps: null, the empty string, or a date
TimestampEntries ==
  { << >>, << << >> >>, <<IsoSecond("1")>>, <<IsoSecond("2")>> }

\* an entry of p50: null, "30" or "80"
MedianEntries == { << >>, << <<"3", "0">> >>, << <<"8", "0">> >> }

ParallelSeries ==
  {ParallelSerie(ts, p50, TRUE) : ts \in SeqsUpTo(TimestampEntries, MaxSerie),
                                  p50 \in SeqsUpTo(MedianEntries, MaxSerie)}
  \cup {ParallelSerie(<< >>, << >>, FALSE)}

\* the k-th element of a legacy array: every second one has no median and
\* every third one has a timestamp that is no date
LegacyItem(k) ==
  [timestamp |-> IF k % 3 = 0 THEN << >>
                 ELSE IsoSecond(<<"1", "2", "3", "4", "5">>[k]),
   median |-> IF k % 2 = 1 THEN <<Num(30)>> ELSE << >>]

\* legacy arrays of zero to MaxSerie elements
LegacySeries ==
  {Json(SerieBody(LegacySerie([k \in 1..n |-> LegacyItem(k)]))) : n \in 0..MaxSerie}

\* bodies whose serie_0 is missing, or neither an array nor an object with
\* both arrays
UnexpectedSeries ==
  {Json(Envelope([serie_0 |-> << >>])),
   Json(SerieBody(ParallelSerie(<< >>, << >>, FALSE)))}

\* what the request of one location may deliver to a fan-out call
JoinOutcomes(kind, code) ==
  IF kind = "realtime"
  THEN {HttpError, Json(SummaryBody(Summary(<<"3", "0">>, Missing, Missing)))}
       \cup (IF code = "US" THEN {NetworkError} ELSE {})
  ELSE IF code = "US"
  THEN {Json(SerieBody(sr)) : sr \in ParallelSeries}
  ELSE IF code = "GB" THEN LegacySeries
  ELSE IF code = "DE" THEN {HttpError}
  ELSE IF code = "SG" THEN {NetworkError}
  ELSE IF code = "JP" THEN {BadJson}
  ELSE UnexpectedSeries

\* the two components that run the fetchRegions effect
Owners == {"hook", "page"}

\* filters of the page as created
DefaultFilters ==
  [exchanges |-> << >>, cloudProviders |-> << >>,
   latencyRange |-> [min |-> 0, max |-> 500]]

\* the real-time batches behind the sample lists the page shows
ViewRadarResponses ==
  { Answering("US" :> <<"3", "0">>),
    Answering("US" :> <<"3", "0">> @@ "GB" :> <<"8", "0">>) }

\* the sample lists a useLatencyData exposes: none, or the hub samples of a
\* batch with the edges derived from them
ViewSampleLists ==
  {<< >>}
  \cup {synthesizeRegionConnections(fetchAllRadarLatencyData(resp, 0)) :
          resp \in ViewRadarResponses}

\* what the control panel sets the filters to
FilterChoices ==
  { DefaultFilters,
    [DefaultFilters EXCEPT !.cloudProviders = <<"AWS">>],
    [DefaultFilters EXCEPT !.exchanges = <<"US", "GB">>],
    [DefaultFilters EXCEPT !.latencyRange = [min |-> 30, max |-> 55]] }

----------------------------------------------------------------------------
(* Initial values of each group of variables *)

IdleCycle ==
  [pc |-> "idle", trigger |-> "none", t0 |-> 0,
   latency |-> << >>, historical |-> << >>]

ClientIdle ==
  /\ responses = [c \in LocationCodes |-> HttpError]
  /\ batch = << >>
  /\ connections = << >>
  /\ cstage = "off"

ResolverIdle ==
  /\ metaQuery = [code |-> Hub, res |-> NetworkError]
  /\ metaResult = Throw(<< >>)
  /\ rstage = "off"
  /\ metaFetches = 0

\* useState initial values and the ref, before the mount effect has run
HookConstructed ==
  /\ latencyData = << >>
  /\ historicalData = << >>
  /\ metrics = ZeroMetrics
  /\ isLoading = TRUE
  /\ error = << >>
  /\ lastUpdated = 0
  /\ intervalRef = "null"

SynthIdle ==
  /\ synthInput = << >>
  /\ synthMeta = [c \in {Hub} |-> NetworkError]
  /\ synthEdges = << >>
  /\ synthNodes = << >>
  /\ sstage = "off"

NoneSent ==
  [k \in {"realtime", "historical"} |-> [c \in LocationCodes |-> 0]]

JoinIdle ==
  /\ jkind = "realtime"
  /\ requests = [c \in LocationCodes |-> "unissued"]
  /\ delivered = [c \in LocationCodes |-> NetworkError]
  /\ attempts = [c \in LocationCodes |-> << >>]
  /\ joined = << >>
  /\ jstage = "off"
  /\ sent = NoneSent

ControllerIdle ==
  /\ HookConstructed
  /\ view = "created"
  /\ cycles = [c \in 1..MaxCycles |-> IdleCycle]
  /\ started = 0
  /\ settled = [cycle |-> 0, result |-> FailureBundle]
  /\ origin = [samples |-> 0, historical |-> 0, metrics |-> 0]

\* useState([]) in both components and in their useLatencyData
ViewConstructed ==
  /\ seenSamples = [w \in Owners |-> << >>]
  /\ effectRuns = [w \in Owners |-> << >>]
  /\ regionExchangesOf = [w \in Owners |-> << >>]
  /\ filters = DefaultFilters

ViewIdle ==
  /\ ViewConstructed
  /\ screen = "off"

----------------------------------------------------------------------------
(* SpecClient: one batch through the client and the edge synthesis *)

InitClient ==
  /\ responses \in ClientResponses
  /\ batch = << >>
  /\ connections = << >>
  /\ cstage = "input"
  /\ ResolverIdle
  /\ SynthIdle
  /\ JoinIdle
  /\ ControllerIdle
  /\ ViewIdle
  /\ refreshInterval = 10000
  /\ now = 1

FetchBatch ==
  /\ cstage = "input"
  /\ batch' = fetchAllRadarLatencyData(responses, now)
  /\ cstage' = "fetched"
  /\ UNCHANGED <<responses, connections, resolverVars, synthVars,
                 joinVars, viewVars,
                 ctlVars, now>>

SynthesizeConnections ==
  /\ cstage = "fetched"
  /\ connections' = synthesizeRegionConnections(batch)
  /\ cstage' = "synthesized"
  /\ UNCHANGED <<responses, batch, resolverVars, synthVars, joinVars, viewVars,
                 ctlVars, now>>

NextClient == FetchBatch \/ SynthesizeConnections

SpecClient == InitClient /\ [][NextClient]_vars

----------------------------------------------------------------------------
(* SpecResolver: one metadata query *)

InitResolver ==
  /\ metaQuery \in [code : QueryCodes, res : LocationOutcomes]
  /\ metaResult = Throw(<< >>)
  /\ rstage = "input"
  /\ metaFetches = 0
  /\ ClientIdle
  /\ SynthIdle
  /\ JoinIdle
  /\ ControllerIdle
  /\ ViewIdle
  /\ refreshInterval = 10000
  /\ now = 1

ResolveMetadata ==
  /\ rstage = "input"
  /\ metaResult' = fetchRegionMetadata(metaQuery.code, metaQuery.res)
  /\ metaFetches' = metaFetches + FetchesOf(metaQuery.code)
  /\ rstage' = "resolved"
  /\ UNCHANGED <<metaQuery, clientVars, synthVars, joinVars, viewVars,
                 ctlVars, now>>

NextResolver == ResolveMetadata

SpecResolver == InitResolver /\ [][NextResolver]_vars

----------------------------------------------------------------------------
(* SpecSynth: the topology synthesizer applied to a sample list *)

InitSynth ==
  /\ synthInput \in SeqsUpTo(HubSamples, MaxSamples)
  /\ synthMeta \in SynthMetaResponses
  /\ synthEdges = << >>
  /\ synthNodes = << >>
  /\ sstage = "input"
  /\ ClientIdle
  /\ ResolverIdle
  /\ JoinIdle
  /\ ControllerIdle
  /\ ViewIdle
  /\ refreshInterval = 10000
  /\ now = 1

SynthesizeEdges ==
  /\ sstage = "input"
  /\ synthEdges' = synthesizeRegionConnections(synthInput)
  /\ sstage' = "edges"
  /\ UNCHANGED <<synthInput, synthMeta, synthNodes,
                 clientVars, resolverVars, joinVars, viewVars, ctlVars, now>>

\* as the controller does, the nodes are made of the list with its edges
SynthesizeNodes ==
  /\ sstage = "edges"
  /\ synthNodes' = synthesizeRegionExchanges(synthEdges, synthMeta)
  /\ sstage' = "nodes"
  /\ UNCHANGED <<synthInput, synthMeta, synthEdges,
                 clientVars, resolverVars, joinVars, viewVars, ctlVars, now>>

NextSynth == SynthesizeEdges \/ SynthesizeNodes

SpecSynth == InitSynth /\ [][NextSynth]_vars

----------------------------------------------------------------------------
(* SpecJoin: the two fan-out calls of one refresh cycle,                    *)
(* fetchAllRadarLatencyData and then fetchRadarHistoricalData, request by   *)
(* request                                                                  *)

InitJoin ==
  /\ jkind = "realtime"
  /\ requests = [c \in LocationCodes |-> "unissued"]
  /\ delivered = [c \in LocationCodes |-> NetworkError]
  /\ attempts = [c \in LocationCodes |-> << >>]
  /\ joined = << >>
  /\ jstage = "called"
  /\ sent = NoneSent
  /\ ClientIdle
  /\ ResolverIdle
  /\ SynthIdle
  /\ ControllerIdle
  /\ ViewIdle
  /\ refreshInterval = 10000
  /\ now = 1

\* LOCATIONS.map(async ...): every callback runs to its first await, which
\* is the await of fetch in the per-location helper
Issued(reqs) == [c \in DOMAIN reqs |-> "pending"]

\* JoinReady of a join that resumes at the first settled callback
JoinReady_First(reqs) == \E c \in DOMAIN reqs : reqs[c] = "settled"

\* Promise.all over callbacks that never reject: every one has returned
JoinReady(reqs) == \A c \in DOMAIN reqs : reqs[c] = "settled"

\* Retried of a callback that fetches again when its request has failed
Retried_OnFailure(res) == res.kind # "json"

\* whether the callback sends its request again: its catch block returns
\* null or [] whatever was thrown
Retried(res) == FALSE

\* the synchronous part of the call, up to await Promise.all
CallFanOut ==
  /\ jstage = "called"
  /\ requests' = Issued(requests)
  /\ sent' = [sent EXCEPT ![jkind] =
                [c \in LocationCodes |->
                   IF requests'[c] = "pending" THEN sent[jkind][c] + 1
                   ELSE sent[jkind][c]]]
  /\ jstage' = "awaiting"
  /\ UNCHANGED <<jkind, delivered, attempts, joined,
                 clientVars, resolverVars, synthVars, ctlVars, viewVars, now>>

\* the request of location i delivers; its callback resumes and returns
Settle(i) ==
  /\ jstage = "awaiting"
  /\ requests[LOCATIONS[i].code] = "pending"
  /\ \E res \in JoinOutcomes(jkind, LOCATIONS[i].code) :
       /\ delivered' = [delivered EXCEPT ![LOCATIONS[i].code] = res]
       /\ attempts' = [attempts EXCEPT ![LOCATIONS[i].code] =
                         IF jkind = "realtime"
                         THEN RadarSampleFor(LOCATIONS[i], res, now)
                         ELSE HistoricalPointsFor(LOCATIONS[i], res)]
       /\ IF Retried(res)
          THEN /\ sent' = [sent EXCEPT ![jkind][LOCATIONS[i].code] = @ + 1]
               /\ UNCHANGED requests
          ELSE /\ requests' = [requests EXCEPT ![LOCATIONS[i].code] = "settled"]
               /\ UNCHANGED sent
  /\ UNCHANGED <<jkind, joined, jstage,
                 clientVars, resolverVars, synthVars, ctlVars, viewVars, now>>

\* await Promise.all resumes: filter(Boolean) or flat() of the results
Join ==
  /\ jstage = "awaiting"
  /\ JoinReady(requests)
  /\ joined' = Flat([i \in 1..Len(LOCATIONS) |-> attempts[LOCATIONS[i].code]])
  /\ jstage' = "joined"
  /\ UNCHANGED <<jkind, requests, delivered, attempts, sent,
                 clientVars, resolverVars, synthVars, ctlVars, viewVars, now>>

\* fetchLatencyData goes on from its first await to its second call
CallHistorical ==
  /\ jstage = "joined"
  /\ jkind = "realtime"
  /\ jkind' = "historical"
  /\ jstage' = "called"
  /\ requests' = [c \in LocationCodes |-> "unissued"]
  /\ delivered' = [c \in LocationCodes |-> NetworkError]
  /\ attempts' = [c \in LocationCodes |-> << >>]
  /\ joined' = << >>
  /\ UNCHANGED <<sent, clientVars, resolverVars, synthVars, ctlVars,
                 viewVars, now>>

NextJoin ==
  \/ CallFanOut
  \/ \E i \in 1..Len(LOCATIONS) : Settle(i)
  \/ Join
  \/ CallHistorical

SpecJoin == InitJoin /\ [][NextJoin]_vars

----------------------------------------------------------------------------
(* Spec: the useLatencyData controller *)

Init ==
  /\ ControllerIdle
  /\ ViewIdle
  /\ refreshInterval \in RefreshIntervals
  /\ ClientIdle
  /\ ResolverIdle
  /\ SynthIdle
  /\ JoinIdle
  /\ now = 0

\* what fetchAllRadarLatencyData returns for each batch of responses and
\* each reading of the clock, computed once
RadarBatches ==
  {<<resp, t, fetchAllRadarLatencyData(resp, t)>> :
     resp \in CtlRadarResponses, t \in 0..MaxClock}

RadarBatch(resp, t) ==
  (CHOOSE e \in RadarBatches : e[1] = resp /\ e[2] = t)[3]

\* what fetchRadarHistoricalData returns for each batch of responses
HistBatches ==
  {<<resp, fetchRadarHistoricalData(resp)>> : resp \in CtlHistResponses}

HistBatch(resp) == (CHOOSE e \in HistBatches : e[1] = resp)[2]

\* the bundle of every pair of results the two calls can return, for each
\* answer of the metadata endpoint and each reading of the clock
Bundles ==
  {<<a[3], h[2], m, t, SuccessBundle(a[3], h[2], m, t)>> :
     a \in RadarBatches, h \in HistBatches,
     m \in CtlMetaResponses, t \in 0..MaxClock}

Bundle(latency, historical, metaResp, t) ==
  (CHOOSE e \in Bundles : /\ e[1] = latency
                          /\ e[2] = historical
                          /\ e[3] = metaResp
                          /\ e[4] = t)[5]

InFlight(c) == cycles[c].pc \in {"realtime", "historical", "regions"}

\* the values Date.now() may return: time does not run backwards
DateNow == now..MaxClock

\* fetchLatencyData up to its first await: the two setters, then
\* fetchAllRadarLatencyData reads Date.now() and issues its requests
StartCycle(trigger) ==
  /\ started < MaxCycles
  /\ started' = started + 1
  /\ \E t \in DateNow :
       /\ now' = t
       /\ cycles' = [cycles EXCEPT ![started + 1] =
                       [IdleCycle EXCEPT !.pc = "realtime",
                                         !.trigger = trigger,
                                         !.t0 = t]]
  /\ isLoading' = TRUE
  /\ error' = << >>
  /\ UNCHANGED <<latencyData, historicalData, metrics, lastUpdated,
                 settled, origin>>

\* the effect of the first render: the initial fetch and the timer
Mount ==
  /\ view = "created"
  /\ view' = "mounted"
  /\ StartCycle("mount")
  /\ intervalRef' = IF refreshInterval > 0 THEN "armed" ELSE intervalRef
  /\ UNCHANGED <<refreshInterval,
                 clientVars, resolverVars, synthVars, joinVars, viewVars>>

\* TimerTick that also abandons the cycles still in flight
TimerTick_Timeout ==
  /\ intervalRef = "armed"
  /\ started < MaxCycles
  /\ started' = started + 1
  /\ \E t \in DateNow :
       /\ now' = t
       /\ cycles' = [c \in 1..MaxCycles |->
                       IF c = started + 1
                       THEN [IdleCycle EXCEPT !.pc = "realtime",
                                              !.trigger = "tick",
                                              !.t0 = t]
                       ELSE IF InFlight(c)
                       THEN [IdleCycle EXCEPT !.pc = "failed"]
                       ELSE cycles[c]]
  /\ isLoading' = TRUE
  /\ error' = << >>
  /\ UNCHANGED <<latencyData, historicalData, metrics, lastUpdated,
                 settled, origin, view, refreshInterval, intervalRef,
                 clientVars, resolverVars, synthVars, joinVars, viewVars>>

\* the setInterval callback
TimerTick ==
  /\ intervalRef = "armed"
  /\ StartCycle("tick")
  /\ UNCHANGED <<view, refreshInterval, intervalRef,
                 clientVars, resolverVars, synthVars, joinVars, viewVars>>

\* refreshData, called by the view
Refresh ==
  /\ view = "mounted"
  /\ StartCycle("refresh")
  /\ UNCHANGED <<view, refreshInterval, intervalRef,
                 clientVars, resolverVars, synthVars, joinVars, viewVars>>

\* Unmount with a cleanup that leaves the timer running
Unmount_KeepTimer ==
  /\ view = "mounted"
  /\ view' = "unmounted"
  /\ UNCHANGED <<refreshInterval, intervalRef, hookVars, cycles, started,
                 settled, origin, clientVars, resolverVars, synthVars,
                 joinVars, viewVars, now>>

\* the cleanup of the effect
Unmount ==
  /\ view = "mounted"
  /\ view' = "unmounted"
  /\ intervalRef' = IF intervalRef # "null" THEN "cleared" ELSE intervalRef
  /\ UNCHANGED <<refreshInterval, hookVars, cycles, started, settled, origin,
                 clientVars, resolverVars, synthVars, joinVars, viewVars, now>>

\* await fetchAllRadarLatencyData() resumes; fetchRadarHistoricalData is called
RealtimeJoin(c) ==
  /\ cycles[c].pc = "realtime"
  /\ \E resp \in CtlRadarResponses :
       cycles' = [cycles EXCEPT
                    ![c].latency = RadarBatch(resp, cycles[c].t0),
                    ![c].pc = "historical"]
  /\ UNCHANGED <<view, refreshInterval, intervalRef, hookVars,
                 started, settled, origin,
                 clientVars, resolverVars, synthVars, joinVars, viewVars, now>>

\* await fetchRadarHistoricalData() resumes; the edges are synthesized and
\* synthesizeRegionExchanges is called
HistoricalJoin(c) ==
  /\ cycles[c].pc = "historical"
  /\ \E resp \in CtlHistResponses :
       cycles' = [cycles EXCEPT
                    ![c].historical = HistBatch(resp),
                    ![c].pc = "regions"]
  /\ UNCHANGED <<view, refreshInterval, intervalRef, hookVars,
                 started, settled, origin,
                 clientVars, resolverVars, synthVars, joinVars, viewVars, now>>

\* CommitSuccess that drops the result of a cycle that is not the newest
CommitSuccess_IfLatest(c, bundle) ==
  IF c = started
  THEN /\ latencyData' = bundle.latencyData
       /\ historicalData' = bundle.historicalData
       /\ metrics' = bundle.metrics
       /\ origin' = [samples |-> c, historical |-> c, metrics |-> c]
  ELSE UNCHANGED <<latencyData, historicalData, metrics, origin>>

\* CommitSuccess that refreshes the real-time data only
CommitSuccess_RealtimeOnly(c, bundle) ==
  /\ latencyData' = bundle.latencyData
  /\ metrics' = bundle.metrics
  /\ origin' = [origin EXCEPT !.samples = c, !.metrics = c]
  /\ UNCHANGED historicalData

\* the setters of the success path, batched into one render
CommitSuccess(c, bundle) ==
  /\ latencyData' = bundle.latencyData
  /\ historicalData' = bundle.historicalData
  /\ metrics' = bundle.metrics
  /\ origin' = [samples |-> c, historical |-> c, metrics |-> c]

\* await synthesizeRegionExchanges() resumes; metrics, commits and finally.
\* Date.now() is read twice, for the metrics and then for setLastUpdated.
Succeed(c) ==
  /\ cycles[c].pc = "regions"
  /\ \E metaResp \in CtlMetaResponses, t \in DateNow :
       \E bundle \in {Bundle(cycles[c].latency, cycles[c].historical,
                                    metaResp, t)} :
         /\ CommitSuccess(c, bundle)
         /\ settled' = [cycle |-> c, result |-> bundle]
         /\ \E u \in t..MaxClock :
              /\ lastUpdated' = u
              /\ now' = u
  /\ cycles' = [cycles EXCEPT ![c] = [IdleCycle EXCEPT !.pc = "done"]]
  /\ isLoading' = FALSE
  /\ UNCHANGED <<view, refreshInterval, intervalRef, error, started,
                 clientVars, resolverVars, synthVars, joinVars, viewVars>>

\* CommitFailure that reports the error and keeps the data
CommitFailure_KeepStale(err) ==
  /\ error' = <<ErrorMessageOf(err)>>
  /\ UNCHANGED <<latencyData, historicalData, metrics, origin, lastUpdated>>

\* CommitFailure that clears lastUpdated together with the metrics
CommitFailure_ResetLastUpdated(err) ==
  /\ error' = <<ErrorMessageOf(err)>>
  /\ latencyData' = FailureBundle.latencyData
  /\ historicalData' = FailureBundle.historicalData
  /\ metrics' = FailureBundle.metrics
  /\ origin' = [samples |-> 0, historical |-> 0, metrics |-> 0]
  /\ lastUpdated' = FailureBundle.metrics.lastUpdated

\* the setters of the catch block; setLastUpdated is not among them
CommitFailure(err) ==
  /\ error' = <<ErrorMessageOf(err)>>
  /\ latencyData' = FailureBundle.latencyData
  /\ historicalData' = FailureBundle.historicalData
  /\ metrics' = FailureBundle.metrics
  /\ origin' = [samples |-> 0, historical |-> 0, metrics |-> 0]
  /\ UNCHANGED lastUpdated

\* the try block is left with a thrown value: catch and finally
Fail(c) ==
  /\ InFlight(c)
  /\ \E err \in ThrownValues : CommitFailure(err)
  /\ cycles' = [cycles EXCEPT ![c] =
                  [IdleCycle EXCEPT !.pc = "failed"]]
  /\ isLoading' = FALSE
  /\ settled' = [cycle |-> c, result |-> FailureBundle]
  /\ UNCHANGED <<view, refreshInterval, intervalRef, started,
                 clientVars, resolverVars, synthVars, joinVars, viewVars, now>>

Next ==
  \/ Mount
  \/ TimerTick
  \/ Refresh
  \/ Unmount
  \/ \E c \in 1..MaxCycles : RealtimeJoin(c)
  \/ \E c \in 1..MaxCycles : HistoricalJoin(c)
  \/ \E c \in 1..MaxCycles : Succeed(c)
  \/ \E c \in 1..MaxCycles : Fail(c)

Spec == Init /\ [][Next]_vars

\* every call a cycle awaits settles, and the continuation of a settled
\* await is run by the event loop
CallsSettle ==
  \A c \in 1..MaxCycles :
    /\ WF_vars(RealtimeJoin(c))
    /\ WF_vars(HistoricalJoin(c))
    /\ WF_vars(Succeed(c))

\* the controller when no call hangs
SpecLive == Init /\ [][Next]_vars /\ CallsSettle

----------------------------------------------------------------------------
(* SpecView: the page and useExchangeData.  Each runs the fetchRegions      *)
(* effect on the sample list of its own useLatencyData and keeps its own    *)
(* regionExchanges; the node lists and connections of the map are derived   *)
(* from both.                                                               *)

InitView ==
  /\ ViewConstructed
  /\ screen = "created"
  /\ ClientIdle
  /\ ResolverIdle
  /\ SynthIdle
  /\ JoinIdle
  /\ ControllerIdle
  /\ refreshInterval = 10000
  /\ now = 0

\* Commits of a call that ignores the cancelled flag
Commits_Always(run) == TRUE

\* if (!cancelled): the cleanup of the run's effect has not been called
Commits(run) == ~run.cancelled

\* the cleanup of every effect run so far: cancelled = true
Cancelled(runs) == [i \in DOMAIN runs |-> [runs[i] EXCEPT !.cancelled = TRUE]]

\* the effect body for the sample list l of component w
RunEffect(w, l) ==
  IF Len(l) > 0
  THEN /\ effectRuns' = [effectRuns EXCEPT ![w] =
                           Append(Cancelled(effectRuns[w]),
                                  [input |-> l, cancelled |-> FALSE,
                                   status |-> "pending"])]
       /\ UNCHANGED regionExchangesOf
  ELSE /\ effectRuns' = [effectRuns EXCEPT ![w] = Cancelled(effectRuns[w])]
       /\ regionExchangesOf' = [regionExchangesOf EXCEPT ![w] = << >>]

\* the first render: both effects run on the empty initial sample list
ViewMount ==
  /\ screen = "created"
  /\ screen' = "mounted"
  /\ regionExchangesOf' = [w \in Owners |-> << >>]
  /\ UNCHANGED <<seenSamples, effectRuns, filters, clientVars, resolverVars, synthVars,
                 joinVars, ctlVars, now>>

\* the useLatencyData of component w exposes a new sample list: the cleanup
\* of the previous effect, then the effect
SamplesChange(w, l) ==
  /\ screen = "mounted"
  /\ Len(l) > 0 => Len(effectRuns[w]) < MaxEffects
  /\ seenSamples' = [seenSamples EXCEPT ![w] = l]
  /\ RunEffect(w, l)
  /\ UNCHANGED <<screen, filters, clientVars, resolverVars, synthVars,
                 joinVars, ctlVars, now>>

\* await synthesizeRegionExchanges(latencyData) resumes in call i of w
SynthesisSettles(w, i) ==
  /\ i \in DOMAIN effectRuns[w]
  /\ effectRuns[w][i].status = "pending"
  /\ \E metaResp \in CtlMetaResponses :
       IF Commits(effectRuns[w][i])
       THEN /\ regionExchangesOf' =
                 [regionExchangesOf EXCEPT ![w] =
                    synthesizeRegionExchanges(effectRuns[w][i].input, metaResp)]
            /\ effectRuns' = [effectRuns EXCEPT ![w][i].status = "committed"]
       ELSE /\ effectRuns' = [effectRuns EXCEPT ![w][i].status = "discarded"]
            /\ UNCHANGED regionExchangesOf
  /\ UNCHANGED <<screen, seenSamples, filters, clientVars, resolverVars,
                 synthVars, joinVars, ctlVars, now>>

\* setFilters, called by the control panel
FiltersChange(f) ==
  /\ screen = "mounted"
  /\ f # filters
  /\ filters' = f
  /\ UNCHANGED <<screen, seenSamples, effectRuns, regionExchangesOf,
                 clientVars, resolverVars, synthVars, joinVars, ctlVars, now>>

\* the page unmounts: the cleanup of both effects
ViewUnmount ==
  /\ screen = "mounted"
  /\ screen' = "unmounted"
  /\ effectRuns' = [w \in Owners |-> Cancelled(effectRuns[w])]
  /\ UNCHANGED <<seenSamples, regionExchangesOf, filters, clientVars,
                 resolverVars, synthVars, joinVars, ctlVars, now>>

NextView ==
  \/ ViewMount
  \/ \E w \in Owners, l \in ViewSampleLists : SamplesChange(w, l)
  \/ \E w \in Owners, i \in 1..MaxEffects : SynthesisSettles(w, i)
  \/ \E f \in FilterChoices : FiltersChange(f)
  \/ ViewUnmount

SpecView == InitView /\ [][NextView]_vars

\* useExchangeData: [...EXCHANGE_LOCATIONS, ...regionExchanges]
exchanges == EXCHANGE_LOCATIONS \o regionExchangesOf["hook"]

\* useExchangeData: the connections of its sample list
hookConnections ==
  IF Len(seenSamples["hook"]) = 0 THEN << >>
  ELSE createLatencyConnections(exchanges, seenSamples["hook"])

filteredExchanges ==
  filterExchangesByName(
    filterExchangesByProvider(exchanges, filters.cloudProviders),
    filters.exchanges)

\* the ids of a node list
IdsOf(nodes) == {nodes[k].id : k \in 1..Len(nodes)}

filteredConnections ==
  SelectSeq(hookConnections,
            LAMBDA connection :
              /\ connection.source.id \in IdsOf(filteredExchanges)
              /\ connection.target.id \in IdsOf(filteredExchanges)
              /\ InLatencyRange(connection.latency, filters.latencyRange))

\* the page: [...exchanges, ...regionExchanges]
allExchanges == exchanges \o regionExchangesOf["page"]

\* the page: [...filteredExchanges, ...regionExchanges], the exchanges prop
\* of the map
allFilteredExchanges == filteredExchanges \o regionExchangesOf["page"]

\* the connections prop of the map
MapConnections == createLatencyConnections(allExchanges, seenSamples["page"])

----------------------------------------------------------------------------
(* Properties of the remote latency client and the edge synthesis,          *)
(* checked under SpecClient                                                 *)

\* the locations whose real-time fetch fails: fetch or res.json() rejects,
\* the status is not ok, or the body fails the shape checks
FailedLocations ==
  {c \in LocationCodes :
     \/ responses[c].kind # "json"
     \/ responses[c].body \in MalformedSummaryBodies}

SamplesOf(data, c) == {i \in 1..Len(data) : data[i].source = c}

\* C1: whatever subset of the locations fails, the batch resolves with
\* exactly one sample for every location that did not fail and no sample for
\* a location that failed.
C1_PartialFailure ==
  cstage # "input" =>
    /\ \A c \in LocationCodes \ FailedLocations :
         Cardinality(SamplesOf(batch, c)) = 1
    /\ \A c \in FailedLocations : SamplesOf(batch, c) = {}
    /\ Len(batch) = Cardinality(LocationCodes \ FailedLocations)

\* DE alone failed and the batch was fetched
C1_Witness ==
  /\ cstage = "fetched"
  /\ FailedLocations = {"DE"}
  /\ Len(batch) = 5

\* the step function with inclusive upper bounds
InclusiveBand(latency) ==
  IF NumLe(latency, Num(50)) THEN "excellent"
  ELSE IF NumLe(latency, Num(100)) THEN "good"
  ELSE IF NumLe(latency, Num(200)) THEN "fair"
  ELSE "poor"

\* the raw latencyIdle the sample of location c was made from
IdleOf(c) == responses[c].body.data[1].result[1].summary_0[1].latencyIdle

\* C3: a sample made from a latencyIdle that parses to a number carries the
\* band of the inclusive step function: up to 50 excellent, up to 100 good,
\* up to 200 fair, above 200 poor.
C3_InclusiveBands ==
  cstage # "input" =>
    \A i \in 1..Len(batch) :
      ~IsNaN(parseFloat(IdleOf(batch[i].source))) =>
        batch[i].quality = InclusiveBand(batch[i].latency)

\* C4: the stored latency is the parsed latencyIdle (0 when it does not
\* parse), and two samples with the same stored latency carry the same band.
C4_BandIsFunctionOfLatency ==
  cstage # "input" =>
    /\ \A i \in 1..Len(batch) :
         batch[i].latency =
           IF IsNaN(parseFloat(IdleOf(batch[i].source))) THEN Num(0)
           ELSE parseFloat(IdleOf(batch[i].source))
    /\ \A i, j \in 1..Len(batch) :
         batch[i].latency = batch[j].latency =>
           batch[i].quality = batch[j].quality

\* US, GB and DE answered 30, 80 and 150 and the edges were synthesized
EndToEndScenario ==
  /\ cstage = "synthesized"
  /\ {"US", "GB", "DE"} \cap FailedLocations = {}
  /\ IdleOf("US") = <<"3", "0">>
  /\ IdleOf("GB") = <<"8", "0">>
  /\ IdleOf("DE") = <<"1", "5", "0">>

QualityAt(data, src, tgt) ==
  {data[i].quality : i \in {k \in 1..Len(data) :
                              data[k].source = src /\ data[k].target = tgt}}

LatencyAt(data, src, tgt) ==
  {data[i].latency : i \in {k \in 1..Len(data) :
                              data[k].source = src /\ data[k].target = tgt}}

HubRegions == [k \in 1..Len(batch) |-> batch[k].source]

\* the edges appended after the hub samples
DerivedEdges == SubSeq(connections, Len(batch) + 1, Len(connections))

\* C6: the derived edges are one per unordered pair of distinct regions with
\* a hub sample: n(n-1)/2 of them, none between a region and itself, no pair
\* twice or in both orientations; for three regions A, B, C they are A-B,
\* A-C, B-C.
C6_PairwiseEdges ==
  cstage = "synthesized" =>
    LET n == Len(HubRegions)
        d == DerivedEdges
    IN /\ 2 * Len(d) = n * (n - 1)
       /\ \A k \in 1..Len(d) :
            /\ d[k].source # d[k].target
            /\ d[k].source \in Range(HubRegions)
            /\ d[k].target \in Range(HubRegions)
       /\ \A a, b \in Range(HubRegions) :
            a # b =>
              Cardinality({k \in 1..Len(d) :
                             {d[k].source, d[k].target} = {a, b}}) = 1
       /\ n = 3 =>
            [k \in 1..Len(d) |-> <<d[k].source, d[k].target>>]
              = << <<HubRegions[1], HubRegions[2]>>,
                   <<HubRegions[1], HubRegions[3]>>,
                   <<HubRegions[2], HubRegions[3]>> >>

\* three regions with a hub sample and their three edges
C6_Witness ==
  /\ cstage = "synthesized"
  /\ Len(batch) = 3
  /\ Len(DerivedEdges) = 3

----------------------------------------------------------------------------
(* Property of the region metadata resolver, checked under SpecResolver     *)

\* the remote call of the query fails: no response, status not ok, or a body
\* that cannot be parsed or fails the shape checks
RemoteCallFails ==
  /\ metaQuery.code # Hub
  /\ \/ metaQuery.res.kind # "json"
     \/ metaQuery.res.body \in MalformedLocationBodies

\* the error the failed remote call raised
RemoteFailure ==
  CASE metaQuery.res.kind = "network" -> TypeErrorFailedToFetch
    [] metaQuery.res.kind = "http" ->
         <<"Failed to fetch region metadata for", metaQuery.code>>
    [] metaQuery.res.kind = "badjson" -> SyntaxErrorJson
    [] OTHER -> <<"Malformed location API response">>

FallbackCodes == {"US", "DE", "GB", "SG", "JP", "IN"}

\* C7: when the remote call fails, a code of the fallback table resolves to
\* the table's name and coordinates, and any other code fails with the
\* error of the remote call.
C7_MetadataFallback ==
  (rstage = "resolved" /\ RemoteCallFails) =>
    IF metaQuery.code \in FallbackCodes
    THEN /\ metaResult.ok
         /\ metaResult.val.code = metaQuery.code
         /\ metaResult.val.name = fallbackCoords[metaQuery.code].name
         /\ metaResult.val.latitude = fallbackCoords[metaQuery.code].latitude
         /\ metaResult.val.longitude = fallbackCoords[metaQuery.code].longitude
    ELSE /\ ~metaResult.ok
         /\ metaResult.err = RemoteFailure

\* the remote call for DE failed and the table answered
C7_Witness ==
  /\ rstage = "resolved"
  /\ RemoteCallFails
  /\ metaQuery.code = "DE"
  /\ metaResult.ok
  /\ metaResult.val.name = "Germany"

\* C24: resolving the hub identifier sends no request and returns the
\* hardcoded hub metadata, whatever the remote endpoint would deliver.
C24_HubResolves ==
  (rstage = "resolved" /\ metaQuery.code = Hub) =>
    /\ metaFetches = 0
    /\ metaResult.ok
    /\ metaResult.val =
         [code |-> "Cloudflare", name |-> "Cloudflare",
          latitude |-> 377749, longitude |-> -1224194]

\* the hub resolved while the endpoint is unreachable
C24_Witness ==
  /\ rstage = "resolved"
  /\ metaQuery.code = Hub
  /\ metaQuery.res = NetworkError
  /\ metaResult.ok

----------------------------------------------------------------------------
(* Properties of the controller, checked under Spec                         *)

\* the derived-state bundle a reader sees
Exposed ==
  [latencyData |-> latencyData, historicalData |-> historicalData,
   metrics |-> metrics]

Settled(c) == cycles[c].pc \in {"done", "failed"}

\* C2: once two or more overlapping cycles have all settled, the exposed
\* bundle is the one written by the cycle that settled last, whichever
\* started first.
C2_LastResolvedWins ==
  (started >= 2 /\ \A c \in 1..started : Settled(c)) =>
    Exposed = settled.result

\* without a timer the second cycle is a manual refresh; it overlapped the
\* mount cycle, which settled last with data
C2_Witness ==
  /\ refreshInterval = 0
  /\ started = 2
  /\ Settled(1) /\ Settled(2)
  /\ settled.cycle = 1
  /\ latencyData # << >>
  /\ Exposed = settled.result

\* C8: the step in which a cycle fails leaves the loading flag off, a
\* non-null error, no samples, no historical points and zero metrics.
C8_FailureClears ==
  [][ \A c \in 1..MaxCycles :
        (InFlight(c) /\ cycles'[c].pc = "failed") =>
          /\ ~isLoading'
          /\ error' # << >>
          /\ latencyData' = << >>
          /\ historicalData' = << >>
          /\ metrics' = ZeroMetrics ]_vars

\* a cycle failed after an earlier cycle had succeeded
C8_Witness ==
  /\ \E c \in 1..MaxCycles : cycles[c].pc = "done"
  /\ settled.cycle # 0
  /\ cycles[settled.cycle].pc = "failed"
  /\ lastUpdated > 0
  /\ error # << >>
  /\ latencyData = << >>

\* C9: a cycle whose last await resumes after the view has unmounted commits
\* nothing: samples, historical points, metrics, error and loading flag stay
\* as they were.
C9_NoWriteAfterUnmount ==
  [][ \A c \in 1..MaxCycles :
        (view = "unmounted" /\ cycles[c].pc = "regions"
                            /\ cycles'[c].pc = "done") =>
          UNCHANGED <<latencyData, historicalData, metrics, error, isLoading>>
    ]_vars

\* C10: the samples, the historical points and the metrics a reader sees
\* were written by the same cycle, or are all initial or cleared, and the
\* metrics count the samples exposed with them.
C10_AtomicBundle ==
  /\ origin.samples = origin.historical
  /\ origin.historical = origin.metrics
  /\ metrics.totalExchanges = Len(latencyData)
  /\ metrics.activeConnections = Len(latencyData)

\* the bundle of the second cycle replaced the bundle of the first
C10_Witness ==
  /\ cycles[1].pc = "done"
  /\ origin = [samples |-> 2, historical |-> 2, metrics |-> 2]
  /\ latencyData # << >>
  /\ historicalData # << >>

----------------------------------------------------------------------------
(* Further properties of the client and the edge synthesis, checked under   *)
(* SpecClient                                                               *)

\* the bands of the legend: up to 20 ms excellent, 21 to 50 good, 51 to 100
\* fair, above 100 poor
LegendBand(latency) ==
  IF NumLe(latency, Num(20)) THEN "excellent"
  ELSE IF NumLe(latency, Num(50)) THEN "good"
  ELSE IF NumLe(latency, Num(100)) THEN "fair"
  ELSE "poor"

\* C14: a sample made from a latencyIdle that parses to a number carries the
\* band of the legend for its latency, and the map computes the same band
\* for that latency.
C14_LegendBands ==
  cstage # "input" =>
    \A i \in 1..Len(batch) :
      ~IsNaN(parseFloat(IdleOf(batch[i].source))) =>
        /\ batch[i].quality = LegendBand(batch[i].latency)
        /\ batch[i].quality = getLatencyQuality(batch[i].latency)

----------------------------------------------------------------------------
(* Properties of the topology synthesizer, checked under SpecSynth          *)

\* the first sample of the input whose source is code
FirstOf(code) ==
  synthInput[CHOOSE k \in 1..Len(synthInput) :
               /\ synthInput[k].source = code
               /\ \A j \in 1..(k - 1) : synthInput[j].source # code]

\* the edges that follow the input samples in the output
SynthDerived == SubSeq(synthEdges, Len(synthInput) + 1, Len(synthEdges))

\* a packet loss or jitter, an absent one counted as 0
CountedAsZero(x) == IF IsNaN(x) THEN Num(0) ELSE x

\* e has the derived fields of an edge between the samples a and b
DerivedFrom(e, a, b) ==
  /\ NumMul(e.latency, 2) = NumAdd(a.latency, b.latency)
  /\ e.timestamp \in {a.timestamp, b.timestamp}
  /\ e.timestamp >= a.timestamp /\ e.timestamp >= b.timestamp
  /\ NumMul(e.packetLoss, 2) =
       NumAdd(CountedAsZero(a.packetLoss), CountedAsZero(b.packetLoss))
  /\ NumMul(e.jitter, 2) =
       NumAdd(CountedAsZero(a.jitter), CountedAsZero(b.jitter))

\* C17: the output starts with the input samples, unchanged and in order,
\* and every edge after them has the mean latency, the later timestamp and
\* the mean packet loss and jitter of the samples of its two endpoints.
C17_DerivedEdgeFields ==
  sstage # "input" =>
    /\ Len(synthEdges) >= Len(synthInput)
    /\ SubSeq(synthEdges, 1, Len(synthInput)) = synthInput
    /\ \A k \in 1..Len(SynthDerived) :
         DerivedFrom(SynthDerived[k], FirstOf(SynthDerived[k].source),
                     FirstOf(SynthDerived[k].target))

\* an edge from a sample without packet loss to a later sample with one
C17_Witness ==
  /\ sstage = "edges"
  /\ \E k \in 1..Len(SynthDerived) :
       /\ IsNaN(FirstOf(SynthDerived[k].source).packetLoss)
       /\ FirstOf(SynthDerived[k].source).timestamp
            < FirstOf(SynthDerived[k].target).timestamp
       /\ SynthDerived[k].timestamp = FirstOf(SynthDerived[k].target).timestamp
       /\ SynthDerived[k].packetLoss = Frac(1, 2)
       /\ SynthDerived[k].latency = Num(55)

\* the codes of the list handed to node synthesis, as they are observed
ObservedCodes ==
  Flat([k \in 1..Len(synthEdges) |->
          <<synthEdges[k].source, synthEdges[k].target>>])

\* the position at which code is observed first
FirstSeen(code) ==
  CHOOSE k \in 1..Len(ObservedCodes) :
    /\ ObservedCodes[k] = code
    /\ \A j \in 1..(k - 1) : ObservedCodes[j] # code

\* the metadata of code resolves, remotely or from the fallback table
Resolves(code) == fetchRegionMetadata(code, synthMeta[code]).ok

NodeIds == [k \in 1..Len(synthNodes) |-> synthNodes[k].id]

\* C19: node synthesis returns one node for each observed code that is not
\* a known exchange id and whose metadata resolves, and for no other code,
\* in the order in which the codes are first observed.
C19_NodeSynthesis ==
  sstage = "nodes" =>
    /\ Range(NodeIds) =
         {c \in Range(ObservedCodes) : c \notin ExchangeIds /\ Resolves(c)}
    /\ \A j, k \in 1..Len(NodeIds) :
         j < k => FirstSeen(NodeIds[j]) < FirstSeen(NodeIds[k])

\* FR is observed first and does not resolve, an exchange id is observed,
\* and the nodes of the hub and of US, which resolves from the table, are
\* returned
C19_Witness ==
  /\ sstage = "nodes"
  /\ Len(synthInput) = 3
  /\ synthInput[1].source = "FR"
  /\ ~Resolves("FR")
  /\ "binance-us-east" \in Range(ObservedCodes)
  /\ synthMeta["US"] = NetworkError
  /\ NodeIds = <<Hub, "US">>

\* C20: every synthesized node is online and has one of the three cloud
\* providers, the node of the hub included.
C20_NodeProviders ==
  sstage = "nodes" =>
    \A k \in 1..Len(synthNodes) :
      /\ synthNodes[k].status = "online"
      /\ synthNodes[k].cloudProvider \in {"AWS", "GCP", "Azure"}

\* the position at which code appears first as a source of the input
SourcePos(code) ==
  CHOOSE k \in 1..Len(synthInput) :
    /\ synthInput[k].source = code
    /\ \A j \in 1..(k - 1) : synthInput[j].source # code

\* the pair <<a, b>> comes before the pair <<c, d>>
PairBefore(a, b, c, d) == a < c \/ (a = c /\ b < d)

\* C23: the source of a derived edge is observed before its target, and
\* the edges come in the lexicographic order of their pairs over the codes
\* in the order these appear first as a source.
C23_PairOrder ==
  sstage # "input" =>
    /\ \A k \in 1..Len(SynthDerived) :
         SourcePos(SynthDerived[k].source) < SourcePos(SynthDerived[k].target)
    /\ \A k, l \in 1..Len(SynthDerived) :
         k < l => PairBefore(SourcePos(SynthDerived[k].source),
                             SourcePos(SynthDerived[k].target),
                             SourcePos(SynthDerived[l].source),
                             SourcePos(SynthDerived[l].target))

\* three regions observed as GB, US, FR give the edges GB-US, GB-FR, US-FR
C23_Witness ==
  /\ sstage = "edges"
  /\ [k \in 1..Len(synthInput) |-> synthInput[k].source] = <<"GB", "US", "FR">>
  /\ [k \in 1..Len(SynthDerived) |->
        <<SynthDerived[k].source, SynthDerived[k].target>>]
       = << <<"GB", "US">>, <<"GB", "FR">>, <<"US", "FR">> >>

----------------------------------------------------------------------------
(* Properties of one fan-out call, checked under SpecJoin                   *)

\* the series the historical request of US delivered
UsSerie == delivered["US"].body.data[1].result[1].serie_0[1]

\* the historical request of US has delivered a parallel-array series
ParallelAnswered ==
  /\ jkind = "historical"
  /\ requests["US"] = "settled"
  /\ delivered["US"].kind = "json"
  /\ UsSerie.shape = "object"

\* the index positions at which timestamps and p50 are both neither null
\* nor undefined
PresentIndexes(sr) ==
  {i \in 1..Len(sr.timestamps) :
     sr.timestamps[i] # << >> /\ i <= Len(sr.p50) /\ sr.p50[i] # << >>}

\* those of them whose timestamp is not the empty string
TruthyIndexes(sr) == {i \in PresentIndexes(sr) : sr.timestamps[i][1] # << >>}

\* the k-th smallest element of the set S of indexes
NthIndex(S, k) == CHOOSE i \in S : Cardinality({j \in S : j < i}) = k - 1

\* points has one point per index of S, in index order, each made of the
\* timestamp and the median of that index
PairsIndexes(points, sr, S) ==
  /\ Len(points) = Cardinality(S)
  /\ \A k \in 1..Len(points) :
       /\ points[k].timestamp = DateGetTime(sr.timestamps[NthIndex(S, k)][1])
       /\ points[k].latency = parseFloat(sr.p50[NthIndex(S, k)][1])
       /\ points[k].source = "US"

\* C11 as stated: the points of a parallel-array series are the pairs
\* (timestamps[i], p50[i]) of the indexes at which both entries are neither
\* null nor undefined.
C11_ParallelPointsAsClaimed ==
  ParallelAnswered => PairsIndexes(attempts["US"], UsSerie, PresentIndexes(UsSerie))

\* C11: the points of a parallel-array series are the pairs
\* (timestamps[i], p50[i]) of the indexes at which timestamps[i] is truthy
\* and p50[i] is neither null nor undefined.
C11_ParallelPoints ==
  ParallelAnswered => PairsIndexes(attempts["US"], UsSerie, TruthyIndexes(UsSerie))

\* a series of two indexes, the first skipped for its null median and the
\* second emitted
C11_Witness ==
  /\ ParallelAnswered
  /\ Len(UsSerie.timestamps) = 2
  /\ Len(UsSerie.p50) = 2
  /\ UsSerie.timestamps[1] = <<IsoSecond("1")>>
  /\ UsSerie.p50[1] = << >>
  /\ TruthyIndexes(UsSerie) = {2}
  /\ Len(attempts["US"]) = 1

\* what the call returns when its requests are answered as delivered
WholeCall ==
  IF jkind = "realtime" THEN fetchAllRadarLatencyData(delivered, now)
  ELSE fetchRadarHistoricalData(delivered)

\* C15: no callback has resumed before every location's request is issued;
\* a pending request can deliver whatever the state of the others; the call
\* returns only when every callback has returned, with what each of them
\* returned, a failed location contributing nothing.
C15_FanOutJoin ==
  /\ jstage # "called" => \A c \in LocationCodes : requests[c] # "unissued"
  /\ \A i \in 1..Len(LOCATIONS) :
       requests[LOCATIONS[i].code] = "pending" => ENABLED Settle(i)
  /\ jstage = "joined" =>
       /\ \A c \in LocationCodes : requests[c] = "settled"
       /\ \A c \in LocationCodes : Range(attempts[c]) \subseteq Range(joined)
       /\ joined = WholeCall

\* a call has returned the points of one location although the request of
\* another failed
C15_Witness ==
  /\ jstage = "joined"
  /\ \E c \in LocationCodes :
       delivered[c].kind # "json" /\ attempts[c] = << >>
  /\ \E c \in LocationCodes :
       attempts[c] # << >> /\ Range(attempts[c]) \subseteq Range(joined)

\* C21: no location is sent more than one real-time and one historical
\* request in a cycle, a failed request is not sent again, and when the
\* second call has returned every location has been sent exactly one of
\* each.
C21_OneRequestEach ==
  /\ \A k \in {"realtime", "historical"}, c \in LocationCodes : sent[k][c] <= 1
  /\ \A c \in LocationCodes :
       sent[jkind][c] = IF requests[c] = "unissued" THEN 0 ELSE 1
  /\ (jkind = "historical" /\ jstage = "joined") =>
       \A k \in {"realtime", "historical"}, c \in LocationCodes : sent[k][c] = 1

\* both calls have returned, the historical request of DE has failed and it
\* was sent once
C21_Witness ==
  /\ jkind = "historical"
  /\ jstage = "joined"
  /\ delivered["DE"] = HttpError
  /\ attempts["DE"] = << >>
  /\ sent["historical"]["DE"] = 1
  /\ sent["realtime"]["DE"] = 1

\* the series a settled historical request delivered; "missing" when the
\* body has no serie_0 and "none" when no body was delivered
DeliveredShape(c) ==
  IF delivered[c].kind # "json" THEN "none"
  ELSE IF delivered[c].body.data[1].result[1].serie_0 = << >> THEN "missing"
  ELSE delivered[c].body.data[1].result[1].serie_0[1].shape

\* the elements of the legacy array location c delivered
DeliveredItems(c) == delivered[c].body.data[1].result[1].serie_0[1].items

\* the points of location c in what the call returned
ReturnedPointsOf(c) == SelectSeq(joined, LAMBDA p : p.source = c)

\* C25: a legacy array yields one point per element, in order; a body
\* whose serie_0 is missing or of neither shape yields no point for its
\* location, and the call still returns the points of every other location.
C25_LegacyAndUnexpected ==
  jkind = "historical" =>
    /\ \A c \in LocationCodes :
         requests[c] = "settled" =>
           /\ DeliveredShape(c) = "array" =>
                /\ Len(attempts[c]) = Len(DeliveredItems(c))
                /\ \A i \in 1..Len(attempts[c]) :
                     /\ attempts[c][i].source = c
                     /\ attempts[c][i].timestamp =
                          DateGetTime(DeliveredItems(c)[i].timestamp)
           /\ DeliveredShape(c) \in {"missing", "other"} => attempts[c] = << >>
    /\ jstage = "joined" =>
         \A c \in LocationCodes :
           /\ DeliveredShape(c) = "array" =>
                Len(ReturnedPointsOf(c)) = Len(DeliveredItems(c))
           /\ DeliveredShape(c) \in {"missing", "other"} =>
                ReturnedPointsOf(c) = << >>
           /\ ReturnedPointsOf(c) = attempts[c]

\* the call has returned the two points of a two-element legacy array, the
\* second element without median, while another location delivered a body
\* of neither shape
C25_Witness ==
  /\ jkind = "historical"
  /\ jstage = "joined"
  /\ DeliveredShape("GB") = "array"
  /\ Len(DeliveredItems("GB")) = 2
  /\ DeliveredItems("GB")[2].median = << >>
  /\ Len(ReturnedPointsOf("GB")) = 2
  /\ DeliveredShape("IN") = "other"
  /\ ReturnedPointsOf("IN") = << >>

----------------------------------------------------------------------------
(* Further properties of the controller, checked under Spec                 *)

\* the step is the success path of cycle c
Succeeds(c) == cycles[c].pc = "regions" /\ cycles'[c].pc = "done"

\* the step is the catch path of cycle c
Fails(c) == InFlight(c) /\ cycles'[c].pc = "failed"

\* C13: lastUpdated is the time of the last successful refresh: a cycle
\* that succeeds sets it to the time it reads, and every other step, a
\* failing cycle's included, leaves it as it was.
C13_LastUpdated ==
  [][ /\ \A c \in 1..MaxCycles : Succeeds(c) => lastUpdated' = now'
      /\ (\A c \in 1..MaxCycles : ~Succeeds(c)) => lastUpdated' = lastUpdated
    ]_vars

\* a failure after a success: the metrics are zeroed, lastUpdated is not
C13_Witness ==
  /\ lastUpdated > 0
  /\ error # << >>
  /\ metrics = ZeroMetrics
  /\ \E c \in 1..MaxCycles : cycles[c].pc = "failed"
  /\ \E c \in 1..MaxCycles : cycles[c].pc = "done"

\* C16: the loading flag stays on while a refresh cycle is in flight: when
\* one of two overlapping cycles completes, the flag is still on as long as
\* the other is pending.
C16_LoadingWhileInFlight ==
  [][ \A c \in 1..MaxCycles :
        (Succeeds(c) /\ \E d \in 1..MaxCycles : InFlight(d)') => isLoading'
    ]_vars

\* C18: every exposed sample, a derived edge included, carries the band the
\* threshold step function gives for its own latency.
C18_BandOfOwnLatency ==
  \A k \in 1..Len(latencyData) :
    latencyData[k].quality = InclusiveBand(latencyData[k].latency)

\* the codes that appear as source or target of an exposed sample
ExposedCodes ==
  {latencyData[k].source : k \in 1..Len(latencyData)}
  \cup {latencyData[k].target : k \in 1..Len(latencyData)}

\* the static exchanges that are online
StaticOnline ==
  {i \in 1..Len(EXCHANGE_LOCATIONS) : EXCHANGE_LOCATIONS[i].status = "online"}

\* the sum of the latencies of the exposed samples from index k on
RECURSIVE LatencySumFrom(_)
LatencySumFrom(k) ==
  IF k > Len(latencyData) THEN Num(0)
  ELSE NumAdd(latencyData[k].latency, LatencySumFrom(k + 1))

\* C22: when the exposed bundle is that of a successful cycle, both counts
\* of the metrics are the number of exposed samples, the average latency
\* is their mean (0 without samples), and the uptime is 100 times the share
\* of online nodes among the static exchanges and one synthesized node,
\* always online, per exposed code.
C22_MetricsRecomputed ==
  origin.metrics # 0 =>
    /\ origin.samples = origin.metrics
    /\ metrics.totalExchanges = Len(latencyData)
    /\ metrics.activeConnections = Len(latencyData)
    /\ IF Len(latencyData) = 0 THEN metrics.averageLatency = Num(0)
       ELSE NumMul(metrics.averageLatency, Len(latencyData)) = LatencySumFrom(1)
    /\ NumMul(metrics.uptime,
              Len(EXCHANGE_LOCATIONS) + Cardinality(ExposedCodes \ ExchangeIds))
         = Num(100 * (Cardinality(StaticOnline)
                        + Cardinality(ExposedCodes \ ExchangeIds)))

\* US at 30 and GB at 80 with their edge at 55: three samples of mean 55,
\* and five of six nodes online
C22_Witness ==
  /\ origin.metrics # 0
  /\ Len(latencyData) = 3
  /\ metrics.totalExchanges = 3
  /\ metrics.averageLatency = Num(55)
  /\ metrics.uptime = Frac(250, 3)

\* cycle c leaves the try block in this step
CycleEnds(c) == InFlight(c) /\ Settled(c)'

\* a cycle goes through its three awaits in order, ends ready only after
\* the third with the commit of its own bundle, ends in error only with the
\* commit of the catch block, and nothing else writes the exposed state or
\* clears the loading flag
OnlyContinuationsCommit ==
  /\ \A c \in 1..MaxCycles :
       /\ (cycles'[c].pc = "historical" /\ cycles[c].pc # "historical")
            => cycles[c].pc = "realtime"
       /\ (cycles'[c].pc = "regions" /\ cycles[c].pc # "regions")
            => cycles[c].pc = "historical"
       /\ (CycleEnds(c) /\ cycles'[c].pc = "done") =>
            /\ cycles[c].pc = "regions"
            /\ settled'.cycle = c
            /\ latencyData' = settled'.result.latencyData
            /\ origin'.samples = c
            /\ ~isLoading'
       /\ (CycleEnds(c) /\ cycles'[c].pc = "failed") =>
            /\ error' # << >>
            /\ latencyData' = << >>
            /\ metrics' = ZeroMetrics
            /\ ~isLoading'
  /\ (\A c \in 1..MaxCycles : ~CycleEnds(c)) =>
       /\ UNCHANGED <<latencyData, historicalData, metrics, lastUpdated,
                      settled, origin>>
       /\ isLoading => isLoading'
       /\ error' \in {error, << >>}

\* C26: when every call settles, a cycle in flight ends ready or in error
\* with the loading flag cleared; a cycle whose call has not settled stays
\* where it is, commits nothing and does not clear the flag, and no timer
\* ends it.
C26_CycleTermination ==
  /\ \A c \in 1..MaxCycles : InFlight(c) ~> (Settled(c) /\ ~isLoading)
  /\ [][OnlyContinuationsCommit]_vars

\* the second cycle has ended ready while the first still awaits its first
\* call and has committed nothing
C26_Witness ==
  /\ cycles[1].pc = "realtime"
  /\ cycles[2].pc = "done"
  /\ origin.samples = 2
  /\ ~isLoading

\* C27: a reported error goes with empty sample and historical lists and
\* zero metrics, and a non-empty sample list goes with no error, however
\* the cycles overlap.
C27_ErrorExcludesData ==
  /\ error # << >> =>
       /\ latencyData = << >>
       /\ historicalData = << >>
       /\ metrics = ZeroMetrics
  /\ latencyData # << >> => error = << >>

\* the step starts cycle c from the timer callback
TickStarts(c) ==
  /\ cycles[c].pc = "idle"
  /\ cycles'[c].pc = "realtime"
  /\ cycles'[c].trigger = "tick"

\* C29: once the view has unmounted the timer is cleared and no tick starts
\* a cycle; with a refresh interval of zero or less no timer is created and
\* no cycle is started by a tick.
C29_TimerLifetime ==
  /\ [](view = "unmounted" => intervalRef # "armed")
  /\ [](refreshInterval <= 0 => intervalRef = "null")
  /\ [][ \A c \in 1..MaxCycles :
           TickStarts(c) => (view = "mounted" /\ refreshInterval > 0)
       ]_vars
  /\ [][ view = "unmounted" => started' = started ]_vars

\* the view has unmounted with a timer that had been armed, before the
\* cycles the model allows were used up
C29_Witness ==
  /\ view = "unmounted"
  /\ intervalRef = "cleared"
  /\ refreshInterval > 0
  /\ started < MaxCycles

----------------------------------------------------------------------------
(* Properties of the page and useExchangeData, checked under SpecView       *)

\* the step resumes call i of fetchRegions in component w
Settles(w, i) ==
  /\ i \in DOMAIN effectRuns[w]
  /\ effectRuns[w][i].status = "pending"
  /\ effectRuns'[w][i].status # "pending"

\* call i of component w was made for the sample list w has now, and no
\* effect has run in w since
ForLatest(w, i) ==
  /\ i = Len(effectRuns[w])
  /\ effectRuns[w][i].input = seenSamples[w]
  /\ ~effectRuns[w][i].cancelled

\* C28: a component's region nodes are written only from the synthesis made
\* for its latest sample list: the result of a call made for a previous
\* list is discarded, and while the sample list is empty the region node
\* list is empty.
C28_LatestRegions ==
  /\ [](\A w \in Owners : seenSamples[w] = << >> => regionExchangesOf[w] = << >>)
  /\ [][ \A w \in Owners :
           /\ \A i \in 1..MaxEffects :
                (Settles(w, i) /\ ~ForLatest(w, i))
                  => regionExchangesOf'[w] = regionExchangesOf[w]
           /\ regionExchangesOf'[w] # regionExchangesOf[w] =>
                \/ seenSamples'[w] = << >> /\ regionExchangesOf'[w] = << >>
                \/ /\ Settles(w, Len(effectRuns[w]))
                   /\ ForLatest(w, Len(effectRuns[w]))
                   /\ \E metaResp \in CtlMetaResponses :
                        regionExchangesOf'[w] =
                          synthesizeRegionExchanges(seenSamples[w], metaResp)
       ]_vars

\* useExchangeData has discarded the late result of its first call and
\* committed that of its second, made for another sample list
C28_Witness ==
  /\ Len(effectRuns["hook"]) = 2
  /\ effectRuns["hook"][1].status = "discarded"
  /\ effectRuns["hook"][2].status = "committed"
  /\ effectRuns["hook"][1].input # effectRuns["hook"][2].input
  /\ IdsOf(regionExchangesOf["hook"]) = {"US", "Cloudflare"}

\* both endpoints of every connection of the map are nodes of the list the
\* connections were built from
EndpointsKnown ==
  \A k \in 1..Len(MapConnections) :
    /\ MapConnections[k].source \in Range(allExchanges)
    /\ MapConnections[k].target \in Range(allExchanges)

\* no two nodes of the list have the same id
UniqueIds(nodes) ==
  \A i, j \in 1..Len(nodes) : i # j => nodes[i].id # nodes[j].id

\* every filtered connection joins two filtered nodes and has a latency in
\* the range of the filters, bounds included
FilteredWithinRange ==
  \A k \in 1..Len(filteredConnections) :
    /\ filteredConnections[k].source.id \in IdsOf(filteredExchanges)
    /\ filteredConnections[k].target.id \in IdsOf(filteredExchanges)
    /\ NumLe(Num(filters.latencyRange.min), filteredConnections[k].latency)
    /\ NumLe(filteredConnections[k].latency, Num(filters.latencyRange.max))

\* a sample with an endpoint that is no node of the list gives no connection
UnknownDropped ==
  \A k \in 1..Len(seenSamples["page"]) :
    ({seenSamples["page"][k].source, seenSamples["page"][k].target}
       \subseteq IdsOf(allExchanges))
    <=> (\E c \in 1..Len(MapConnections) :
           MapConnections[c].id = seenSamples["page"][k].id)

\* C30: the connections of the map have their endpoints in the node list
\* they were built from, the node list of the map has no two nodes with the
\* same id, the filtered connections join filtered nodes within the
\* inclusive latency range, and a sample with an unknown endpoint is dropped.
C30_ConnectionsAndNodes ==
  /\ EndpointsKnown
  /\ UniqueIds(allFilteredExchanges)
  /\ FilteredWithinRange
  /\ UnknownDropped

====
